---- MODULE Spec2Model ----
(***************************************************************************)
(* Model of expvarmon's Service (service.go): construction, the poll tick  *)
(* Update, the accessors Value / Values / Max, the CSV export and Close.   *)
(***************************************************************************)
EXTENDS Integers, Sequences, FiniteSets, TLC

\* ------------------------------------------------------------------ bounds
\* Number of Update ticks explored per behaviour.
MaxTicks == 3
\* Capacity N of every Stack (history buffer).
StackSize == 2

\* ---------------------------------------------------------- canonical values
\* Go's nil interface{} / nil error.
Nil == [t |-> "nil"]
NoErr == "nil"

VInt64(n) == [t |-> "int64", n |-> n]
VInt(n) == [t |-> "int", n |-> n]
VFloat(num, den) == [t |-> "float64", num |-> num, den |-> den]
VBool(b) == [t |-> "bool", b |-> b]
VString(x) == [t |-> "string", str |-> x]

\* ------------------------------------------------------------- JSON values
JInt(n) == [j |-> "int", n |-> n]
JFloat(num, den) == [j |-> "float", num |-> num, den |-> den]
JBool(b) == [j |-> "bool", b |-> b]
JStr(x) == [j |-> "string", str |-> x]
JArr(a) == [j |-> "array", elems |-> a]
JNull == [j |-> "null"]

JObj == [j |-> "object"]

\* -------------------------------------------------------------- rationals
RECURSIVE Gcd(_, _)
Gcd(a, b) == IF b = 0 THEN a ELSE Gcd(b, a % b)

Abs(x) == IF x < 0 THEN -x ELSE x

\* A float64 as a reduced fraction num/den, den > 0.
Reduce(num, den) ==
    LET g == Gcd(Abs(num), den)
    IN  IF g = 0 THEN VFloat(0, 1) ELSE VFloat(num \div g, den \div g)

\* Go's int64(f) / int(f): truncation toward zero.
Trunc(f) ==
    IF f.num >= 0 THEN f.num \div f.den ELSE -((-f.num) \div f.den)

\* jason.Value.Int64: a number whose literal is an integer.
IsInt64(v) == v.j = "int"
\* jason.Value.Float64: any number.
IsFloat64(v) == v.j \in {"int", "float"}
AsFloat(v) == IF v.j = "int" THEN VFloat(v.n, 1) ELSE Reduce(v.num, v.den)

RECURSIVE SumJason(_)
SumJason(a) ==
    IF a = <<>> THEN VFloat(0, 1)
    ELSE LET r == SumJason(Tail(a))
             h == IF IsFloat64(Head(a)) THEN AsFloat(Head(a)) ELSE VFloat(0, 1)
         IN  Reduce(h.num * r.den + r.num * h.den, h.den * r.den)

\* averageJason: arithmetic mean of the numeric elements over the length.
averageJason(a) ==
    LET sum == SumJason(a)
    IN  Reduce(sum.num, sum.den * Len(a))

\* Variant: float64 is tried before int64.
guessValue_FloatFirst(value) ==
    IF IsFloat64(value) THEN AsFloat(value)
    ELSE IF IsInt64(value) THEN VInt64(value.n)
    ELSE IF value.j = "bool" THEN VBool(value.b)
    ELSE IF value.j = "string" THEN VString(value.str)
    ELSE IF value.j = "array" THEN
        IF Len(value.elems) = 0 THEN VInt(0)
        ELSE IF IsInt64(value.elems[1])
             THEN VInt64(Trunc(averageJason(value.elems)))
             ELSE averageJason(value.elems)
    ELSE Nil

\* Variant: the average of an array is never cast to int64.
guessValue_NoCast(value) ==
    IF IsInt64(value) THEN VInt64(value.n)
    ELSE IF IsFloat64(value) THEN AsFloat(value)
    ELSE IF value.j = "bool" THEN VBool(value.b)
    ELSE IF value.j = "string" THEN VString(value.str)
    ELSE IF value.j = "array" THEN
        IF Len(value.elems) = 0 THEN VInt(0)
        ELSE averageJason(value.elems)
    ELSE Nil

\* guessValue: int64, float64, bool, string, array, in this order.
guessValue(value) ==
    IF IsInt64(value) THEN VInt64(value.n)
    ELSE IF IsFloat64(value) THEN AsFloat(value)
    ELSE IF value.j = "bool" THEN VBool(value.b)
    ELSE IF value.j = "string" THEN VString(value.str)
    ELSE IF value.j = "array" THEN
        IF Len(value.elems) = 0 THEN VInt(0)
        ELSE IF IsInt64(value.elems[1])
             THEN VInt64(Trunc(averageJason(value.elems)))
             ELSE averageJason(value.elems)
    ELSE Nil

\* ------------------------------------------------------------------ Stack
NewStack == [Values |-> <<>>, Max |-> Nil]

IsNumeric(v) == v.t \in {"int64", "int", "float64"}
NumOf(v) == IF v.t = "float64" THEN v ELSE VFloat(v.n, 1)
\* a > b, numerically
NumGreater(a, b) ==
    LET x == NumOf(a)
        y == NumOf(b)
    IN  x.num * y.den > y.num * x.den

\* Stack.Push: append, evict the oldest beyond the capacity, track the maximum.
Push(stack, val) ==
    LET appended == Append(stack.Values, val)
        kept == IF Len(appended) > StackSize THEN Tail(appended) ELSE appended
        max == IF IsNumeric(val) /\ (stack.Max = Nil \/ NumGreater(val, stack.Max))
               THEN val ELSE stack.Max
    IN  [Values |-> kept, Max |-> max]

\* Stack.Front: the most recent push, nil when there is none.
Front(stack) ==
    IF Len(stack.Values) = 0 THEN Nil ELSE stack.Values[Len(stack.Values)]

IntOf(v) ==
    IF v.t \in {"int64", "int"} THEN v.n
    ELSE IF v.t = "float64" THEN Trunc(v)
    ELSE IF v.t = "bool" THEN (IF v.b THEN 1 ELSE 0)
    ELSE 0

\* Stack.IntValues: the retained history as ints, oldest first.
IntValues(stack) == [i \in 1..Len(stack.Values) |-> IntOf(stack.Values[i])]

\* ---------------------------------------------------------------- VarName
\* A VarName: the path into the document and the display kind it encodes.
VarName(path, kind) == [path |-> path, kind |-> kind]
ToSlice(name) == name.path
Kind(name) == name.kind

\* Format: the display string of a canonical value as a kind; total.
Format(v, kind) == [text |-> v, as |-> kind]

\* The display string "N/A", the not-available sentinel of Value.
NA == [text |-> "N/A"]

\* uptimeCounter = VarName("memstats.PauseTotalNs").ToSlice()
uptimeCounter == <<"memstats", "PauseTotalNs">>
cmdlinePath == <<"cmdline">>

\* The tracked variables handed to NewService, in order, and an untracked one.
V1 == VarName(<<"memstats", "Alloc">>, "bytes")
V2 == VarName(<<"Goroutines">>, "none")
V3 == VarName(<<"memstats", "PauseNs">>, "duration")
TrackedVars == <<V1, V2>>
AllNames == {V1, V2, V3}

\* ---------------------------------------------------------------- strings
\* A string is a sequence of characters.
RECURSIVE Join(_, _)
\* strings.Join(tokens, sep)
Join(tokens, sep) ==
    IF Len(tokens) = 0 THEN <<>>
    ELSE IF Len(tokens) = 1 THEN tokens[1]
    ELSE tokens[1] \o sep \o Join(Tail(tokens), sep)

RECURSIVE Base(_)
\* The last path element of a command.
Base(str) ==
    IF \E i \in 1..Len(str) : str[i] = "/"
    THEN Base(Tail(str))
    ELSE str

\* BaseCommand: the base name of the first token of the command line.
BaseCommand(cmdline) == IF Len(cmdline) = 0 THEN <<>> ELSE Base(cmdline[1])

\* --------------------------------------------------------------- documents
\* An expvar document maps the paths it holds to JSON values.
Has(expvar, path) == path \in DOMAIN expvar

\* expvar.GetInt64(path...): the error, then the value.
GetInt64Err(expvar, path) ==
    IF Has(expvar, path) /\ IsInt64(expvar[path]) THEN NoErr ELSE "counter"
GetInt64(expvar, path) == expvar[path].n

IsStringArray(v) ==
    /\ v.j = "array"
    /\ \A i \in 1..Len(v.elems) : v.elems[i].j = "string"
\* expvar.GetStringArray("cmdline"): the error, then the tokens.
GetStringArrayErr(expvar, path) ==
    IF Has(expvar, path) /\ IsStringArray(expvar[path]) THEN NoErr ELSE "cmdline"
GetStringArray(expvar, path) ==
    [i \in 1..Len(expvar[path].elems) |-> expvar[path].elems[i].str]

\* expvar.GetValue(path...) fails exactly when the path is absent.
GetValueOk(expvar, path) == Has(expvar, path)

\* The empty document.
EmptyDoc == [p \in {} |-> JNull]

\* A document from an optional counter, an optional cmdline and the values
\* of the tracked variables (sets of at most one element stand for optional).
Doc(counter, cmdline, v1, v2) ==
    [p \in ({uptimeCounter : c \in counter} \cup {cmdlinePath : c \in cmdline}
            \cup {ToSlice(V1) : v \in v1} \cup {ToSlice(V2) : v \in v2}) |->
        IF p = uptimeCounter THEN JInt(CHOOSE c \in counter : TRUE)
        ELSE IF p = cmdlinePath THEN CHOOSE c \in cmdline : TRUE
        ELSE IF p = ToSlice(V1) THEN CHOOSE v \in v1 : TRUE
        ELSE CHOOSE v \in v2 : TRUE]

Opt(S) == {{}} \cup {{x} : x \in S}

CmdA == JArr(<<JStr(<<"/", "a">>), JStr(<<"x">>)>>)
CmdB == JArr(<<JStr(<<"b">>)>>)
CmdEmpty == JArr(<<>>)

\* The documents the monitored endpoint serves in this model.
Docs ==
    \* every counter with every command line
    {Doc(c, m, {JInt(3)}, {JInt(7)}) :
        c \in Opt({40, 100, 250}), m \in Opt({CmdA, CmdB, CmdEmpty})}
    \* tracked variables missing, unrepresentable, or changing
    \cup {Doc({250}, {CmdA}, a, b) :
            a \in Opt({JInt(7), JNull}), b \in Opt({JInt(2)})}
    \* a tracked variable that is not a number
    \cup {Doc({250}, {CmdA}, {JStr(<<"s">>)}, {JInt(2)})}

\* FetchExpvar's results: a document and no error, or an error and the
\* empty document.
FetchResults ==
    {[err |-> NoErr, expvar |-> d] : d \in Docs}
    \cup {[err |-> "fetch", expvar |-> EmptyDoc]}

\* ------------------------------------------------------------------ state
VARIABLES
    s,          \* the Service: Name, Cmdline, vars, stacks, Err, Restarted,
                \* UptimeCounter, f (the CSV file handle: "nil", "open", "closed")
    serialize,  \* the command-line option *serialize
    rows,       \* the records written to the CSV file so far
    log,        \* per Update so far: the fetch result and the Err, Restarted,
                \* UptimeCounter and Cmdline it left behind
    \* one round of concurrent Updates, one goroutine per monitored service
    svcs,       \* the Service of every monitor
    files,      \* the records of every monitor's CSV file
    pc,         \* the statement every monitor's Update runs next
    got,        \* what FetchExpvar returned to every monitor's Update
    start,      \* the Service and the file every monitor began the round with
    dones,      \* how often every monitor's Update called wg.Done
    wg,         \* the WaitGroup counter
    spawned,    \* how many Updates the caller has started
    rendered,   \* whether the caller's wg.Wait returned and rendering began
    \* one application of guessValue
    raw,        \* the JSON value handed to guessValue
    guessed     \* what guessValue returned

vars == <<s, serialize, rows, log>>
roundVars == <<svcs, files, pc, got, start, dones, wg, spawned, rendered>>
guessVars == <<raw, guessed>>

\* No round of concurrent Updates is running.
RoundIdle ==
    /\ svcs = <<>> /\ files = <<>> /\ pc = <<>> /\ got = <<>> /\ start = <<>>
    /\ dones = <<>> /\ wg = 0 /\ spawned = 0 /\ rendered = FALSE

\* guessValue has not returned yet.
Pending == [t |-> "pending"]

\* guessValue is not being applied.
GuessIdle == raw = JNull /\ guessed = Pending

\* url.Host, the name until the command line is resolved.
Host == <<"h">>

\* The first record of the CSV file: "time", then the tracked names.
Header(names) == <<"time">> \o names

\* NewService(url, vars) under the given serialize option.
NewService(names, ser) ==
    [Name |-> Host,
     Cmdline |-> <<>>,
     vars |-> names,
     stacks |-> [n \in {names[i] : i \in 1..Len(names)} |-> NewStack],
     Err |-> NoErr,
     Restarted |-> FALSE,
     UptimeCounter |-> 0,
     f |-> IF ser THEN "open" ELSE "nil"]

Init ==
    /\ serialize \in BOOLEAN
    /\ s = NewService(TrackedVars, serialize)
    /\ rows = IF serialize THEN <<Header(TrackedVars)>> ELSE <<>>
    /\ log = <<>>
    /\ RoundIdle
    /\ GuessIdle

\* --------------------------------------------------------------- accessors
\* Variant: Value does not look at Err.
Value_NoErrCheck(sv, name) ==
    IF name \notin DOMAIN sv.stacks THEN NA
    ELSE IF Front(sv.stacks[name]) = Nil THEN NA
    ELSE Format(Front(sv.stacks[name]), Kind(name))

\* Service.Value
Value(sv, name) ==
    IF sv.Err # NoErr THEN NA
    ELSE IF name \notin DOMAIN sv.stacks THEN NA
    ELSE IF Front(sv.stacks[name]) = Nil THEN NA
    ELSE Format(Front(sv.stacks[name]), Kind(name))

\* Variant: Values gives the history newest first.
Values_Reversed(sv, name) ==
    IF name \notin DOMAIN sv.stacks THEN Nil
    ELSE LET v == IntValues(sv.stacks[name])
         IN  [i \in 1..Len(v) |-> v[Len(v) + 1 - i]]

\* Variant: Values gives no history while Err is set.
Values_ErrGated(sv, name) ==
    IF name \notin DOMAIN sv.stacks THEN Nil
    ELSE IF sv.Err # NoErr THEN <<>>
    ELSE IntValues(sv.stacks[name])

\* Service.Values
Values(sv, name) ==
    IF name \notin DOMAIN sv.stacks THEN Nil
    ELSE IntValues(sv.stacks[name])

\* Variant: the maximum is taken from the retained history.
RECURSIVE MaxOf(_)
MaxOf(values) ==
    IF values = <<>> THEN Nil
    ELSE LET rest == MaxOf(Tail(values))
             head == Head(values)
         IN  IF ~IsNumeric(head) THEN rest
             ELSE IF rest = Nil \/ NumGreater(head, rest) THEN head
             ELSE rest

Max_FromHistory(sv, name) ==
    IF name \notin DOMAIN sv.stacks THEN Nil
    ELSE IF MaxOf(sv.stacks[name].Values) = Nil THEN Nil
    ELSE Format(MaxOf(sv.stacks[name].Values), Kind(name))

\* Service.Max
Max(sv, name) ==
    IF name \notin DOMAIN sv.stacks THEN Nil
    ELSE IF sv.stacks[name].Max = Nil THEN Nil
    ELSE Format(sv.stacks[name].Max, Kind(name))

\* ------------------------------------------------------------------ Update
\* Variant: the restart is taken from a fetch that fails after a success.
CheckRestart_Inverted(sv, err) ==
    [sv EXCEPT !.Restarted = IF sv.Err = NoErr /\ err # NoErr THEN TRUE ELSE @,
               !.Err = err]

\* Variant: Err is only ever set, a successful fetch does not clear it.
CheckRestart_KeepErr(sv, err) ==
    [sv EXCEPT !.Restarted = IF sv.Err # NoErr /\ err = NoErr THEN TRUE ELSE @,
               !.Err = IF err # NoErr THEN err ELSE @]

\* Update, the fetch: a fetch that succeeds after an error is a restart;
\* Err becomes the fetch's error.
CheckRestart(sv, err) ==
    [sv EXCEPT !.Restarted = IF sv.Err # NoErr /\ err = NoErr THEN TRUE ELSE @,
               !.Err = err]

\* Variant: the comparison of the counters is the other way round.
UpdateUptime_Inverted(sv, expvar) ==
    IF GetInt64Err(expvar, uptimeCounter) # NoErr
    THEN [sv EXCEPT !.Err = GetInt64Err(expvar, uptimeCounter)]
    ELSE LET c == GetInt64(expvar, uptimeCounter)
         IN  [sv EXCEPT !.Restarted = IF sv.UptimeCounter < c THEN TRUE ELSE @,
                        !.UptimeCounter = c]

\* Variant: Restarted is assigned the comparison instead of being raised.
UpdateUptime_Assign(sv, expvar) ==
    IF GetInt64Err(expvar, uptimeCounter) # NoErr
    THEN [sv EXCEPT !.Err = GetInt64Err(expvar, uptimeCounter)]
    ELSE LET c == GetInt64(expvar, uptimeCounter)
         IN  [sv EXCEPT !.Restarted = sv.UptimeCounter > c,
                        !.UptimeCounter = c]

\* Variant: an unchanged counter counts as a regression.
UpdateUptime_NotStrict(sv, expvar) ==
    IF GetInt64Err(expvar, uptimeCounter) # NoErr
    THEN [sv EXCEPT !.Err = GetInt64Err(expvar, uptimeCounter)]
    ELSE LET c == GetInt64(expvar, uptimeCounter)
         IN  [sv EXCEPT !.Restarted = IF sv.UptimeCounter >= c THEN TRUE ELSE @,
                        !.UptimeCounter = c]

\* Variant: the counter is stored only when it did not regress.
UpdateUptime_KeepMax(sv, expvar) ==
    IF GetInt64Err(expvar, uptimeCounter) # NoErr
    THEN [sv EXCEPT !.Err = GetInt64Err(expvar, uptimeCounter)]
    ELSE LET c == GetInt64(expvar, uptimeCounter)
         IN  IF sv.UptimeCounter > c
             THEN [sv EXCEPT !.Restarted = TRUE]
             ELSE [sv EXCEPT !.UptimeCounter = c]

\* Update, the uptime counter: a counter below the stored one is a restart.
UpdateUptime(sv, expvar) ==
    IF GetInt64Err(expvar, uptimeCounter) # NoErr
    THEN [sv EXCEPT !.Err = GetInt64Err(expvar, uptimeCounter)]
    ELSE LET c == GetInt64(expvar, uptimeCounter)
         IN  [sv EXCEPT !.Restarted = IF sv.UptimeCounter > c THEN TRUE ELSE @,
                        !.UptimeCounter = c]

\* Update, Cmdline and Name, while Cmdline is empty.
UpdateCmdline(sv, expvar) ==
    IF Len(sv.Cmdline) # 0 THEN sv
    ELSE IF GetStringArrayErr(expvar, cmdlinePath) # NoErr
    THEN [sv EXCEPT !.Err = GetStringArrayErr(expvar, cmdlinePath)]
    ELSE LET cmdline == GetStringArray(expvar, cmdlinePath)
         IN  [sv EXCEPT !.Cmdline = Join(cmdline, <<" ">>),
                        !.Name = BaseCommand(cmdline)]

\* Variant: whatever guessValue gives is pushed, nil too.
PushVar_NilOnNothing(stack, expvar, name) ==
    IF ~GetValueOk(expvar, ToSlice(name)) THEN Push(stack, Nil)
    ELSE Push(stack, guessValue(expvar[ToSlice(name)]))

\* Update, one tracked variable: nil when it cannot be extracted, the guessed
\* value when there is one, else no push.
PushVar(stack, expvar, name) ==
    IF ~GetValueOk(expvar, ToSlice(name)) THEN Push(stack, Nil)
    ELSE LET v == guessValue(expvar[ToSlice(name)])
         IN  IF v # Nil THEN Push(stack, v) ELSE stack

\* Variant: a variable that cannot be extracted ends the loop, the other
\* variables are not processed.
PushVars_Abort(sv, expvar) ==
    [sv EXCEPT !.stacks = [n \in DOMAIN sv.stacks |->
        IF ~GetValueOk(expvar, ToSlice(n)) THEN Push(sv.stacks[n], Nil)
        ELSE IF \E m \in DOMAIN sv.stacks : ~GetValueOk(expvar, ToSlice(m))
             THEN sv.stacks[n]
             ELSE PushVar(sv.stacks[n], expvar, n)]]

\* Variant: the stack of a variable that cannot be extracted is dropped.
PushVars_DropMissing(sv, expvar) ==
    [sv EXCEPT !.stacks =
        [n \in {m \in DOMAIN sv.stacks : GetValueOk(expvar, ToSlice(m))} |->
            PushVar(sv.stacks[n], expvar, n)]]

\* Update, the loop over s.stacks.
PushVars(sv, expvar) ==
    [sv EXCEPT !.stacks = [n \in DOMAIN sv.stacks |->
                              PushVar(sv.stacks[n], expvar, n)]]

\* time.Now().Format("2006-01-02 15:04:05")
Now == "2006-01-02 15:04:05"

\* Update, the CSV record: the time, then Value of every var of s.vars.
Record(sv) == <<Now>> \o [i \in 1..Len(sv.vars) |-> Value(sv, sv.vars[i])]

\* Update's effect on the Service for one result of FetchExpvar.
UpdateService(sv, res) ==
    PushVars(UpdateCmdline(UpdateUptime(CheckRestart(sv, res.err), res.expvar),
                           res.expvar),
             res.expvar)

\* s.w.Write(values); s.w.Flush()
WriteRow(file, sv) == IF serialize THEN Append(file, Record(sv)) ELSE file

\* Variant: the record is built before the tick's pushes.
Update_StaleRow(res) ==
    /\ Len(log) < MaxTicks
    /\ s.f # "closed"
    /\ s' = UpdateService(s, res)
    /\ rows' = WriteRow(rows, [s EXCEPT !.Err = s'.Err])
    /\ log' = Append(log, [res |-> res, Err |-> s'.Err,
                            Restarted |-> s'.Restarted,
                            UptimeCounter |-> s'.UptimeCounter,
                            Cmdline |-> s'.Cmdline])
    /\ UNCHANGED <<serialize, roundVars, guessVars>>

\* Service.Update with the result res of FetchExpvar.
Update(res) ==
    /\ Len(log) < MaxTicks
    /\ s.f # "closed"
    /\ s' = UpdateService(s, res)
    /\ rows' = WriteRow(rows, s')
    /\ log' = Append(log, [res |-> res, Err |-> s'.Err,
                            Restarted |-> s'.Restarted,
                            UptimeCounter |-> s'.UptimeCounter,
                            Cmdline |-> s'.Cmdline])
    /\ UNCHANGED <<serialize, roundVars, guessVars>>

\* Service.Close, at service exit.
Close ==
    /\ serialize
    /\ s.f = "open"
    /\ s' = [s EXCEPT !.f = "closed"]
    /\ UNCHANGED <<serialize, rows, log, roundVars, guessVars>>

Next ==
    \/ \E res \in FetchResults : Update(res)
    \/ Close

Spec == Init /\ [][Next]_vars

\* ------------------------------------------------------ reading the log
Ticks == 1..Len(log)
FetchOk(i) == log[i].res.err = NoErr
HasCounter(i) == GetInt64Err(log[i].res.expvar, uptimeCounter) = NoErr
CounterAt(i) == GetInt64(log[i].res.expvar, uptimeCounter)
HasCmdline(i) == GetStringArrayErr(log[i].res.expvar, cmdlinePath) = NoErr
\* The state the i-th Update started from.
ErrBefore(i) == IF i = 1 THEN NoErr ELSE log[i - 1].Err
CounterBefore(i) == IF i = 1 THEN 0 ELSE log[i - 1].UptimeCounter
CmdlineBefore(i) == IF i = 1 THEN <<>> ELSE log[i - 1].Cmdline

\* The first three ticks fetch successfully and observe 100, 250, 40.
Observed_100_250_40 ==
    /\ Len(log) >= 3
    /\ \A i \in 1..3 : FetchOk(i) /\ HasCounter(i)
    /\ <<CounterAt(1), CounterAt(2), CounterAt(3)>> = <<100, 250, 40>>

RestartOnlyAtThird ==
    ~log[1].Restarted /\ ~log[2].Restarted /\ log[3].Restarted

\* C1 as stated: whenever the ticks fetch successfully and observe 100, 250,
\* 40, Restarted is false after ticks 1 and 2 and true after tick 3.
C1_AsStated == Observed_100_250_40 => RestartOnlyAtThird

\* C1, amended: when the ticks fetch successfully, observe 100, 250, 40 and
\* every document carries the cmdline field, Restarted is false after ticks
\* 1 and 2 and true after tick 3; and every tick that observes a counter
\* strictly less than the stored UptimeCounter leaves Restarted true.
C1_RestartOnRegression ==
    /\ (Observed_100_250_40 /\ (\A i \in 1..3 : HasCmdline(i))) => RestartOnlyAtThird
    /\ \A i \in Ticks :
          (HasCounter(i) /\ CounterAt(i) < CounterBefore(i)) => log[i].Restarted

C1_Witness ==
    /\ Observed_100_250_40
    /\ \A i \in 1..3 : HasCmdline(i)
    /\ Len(log) = 3
    /\ s.Restarted
    /\ ~log[2].Restarted

\* C2: Restarted is sticky: no step takes it from true to false.
C2_Sticky == [][s.Restarted => s'.Restarted]_vars

\* Restarted was raised at tick 2, then a tick failed and later counters
\* rose again.
C2_Witness ==
    /\ Len(log) = 3
    /\ log[2].Restarted
    /\ ~FetchOk(3)
    /\ s.Restarted

\* C3 as stated: a tick whose fetch fails right after a tick that left Err
\* nil leaves Restarted true.
C3_AsStated ==
    \A i \in Ticks :
        (i >= 2 /\ FetchOk(i - 1) /\ ErrBefore(i) = NoErr /\ ~FetchOk(i))
            => log[i].Restarted

\* C3, amended: a tick whose fetch succeeds right after a tick that left Err
\* set leaves Restarted true, with or without a counter regression.
C3_RestartOnRecovery ==
    \A i \in Ticks : (ErrBefore(i) # NoErr /\ FetchOk(i)) => log[i].Restarted

C3_Witness ==
    /\ Len(log) >= 2
    /\ ~FetchOk(1)
    /\ FetchOk(2)
    /\ ~log[1].Restarted
    /\ log[2].Restarted
    /\ HasCounter(2)

\* Every fetch so far succeeded and the observed counter never decreased.
NeverDecreased ==
    /\ \A i \in Ticks : FetchOk(i)
    /\ \A i, k \in Ticks :
          (i < k /\ HasCounter(i) /\ HasCounter(k)) => CounterAt(i) <= CounterAt(k)

CmdlineWasRead ==
    \E i \in Ticks : FetchOk(i) /\ HasCmdline(i) /\ CmdlineBefore(i) = <<>>

\* C5: once an Update has read cmdline from a document and set Cmdline and
\* Name, no later step changes Cmdline or Name.
C5_ResolvedOnce ==
    [][CmdlineWasRead => (s'.Cmdline = s.Cmdline /\ s'.Name = s.Name)]_vars

\* C6: Value gives "N/A" for every name whenever Err is set, for an
\* untracked name, and when the stack's Front is nil.
C6_ValueNotAvailable ==
    \A n \in AllNames :
        /\ s.Err # NoErr => Value(s, n) = NA
        /\ n \notin DOMAIN s.stacks => Value(s, n) = NA
        /\ (n \in DOMAIN s.stacks /\ Front(s.stacks[n]) = Nil) => Value(s, n) = NA

\* Err is set although the last push to V1's stack was a value.
C6_Witness ==
    /\ s.Err # NoErr
    /\ Front(s.stacks[V1]) = VInt64(3)
    /\ Value(s, V1) = NA

\* C7 as stated: after every Update, Err is set exactly when the fetch of
\* that tick failed.
C7_AsStated == \A i \in Ticks : (log[i].Err # NoErr) <=> ~FetchOk(i)

\* C7, amended: after every Update, Err is set exactly when the fetch of that
\* tick failed, or its document lacks the uptime counter, or Cmdline was still
\* empty and its document lacks the cmdline field; otherwise Err is nil, also
\* after a failed tick.
C7_ErrAfterUpdate ==
    \A i \in Ticks :
        (log[i].Err # NoErr) <=>
            \/ ~FetchOk(i)
            \/ ~HasCounter(i)
            \/ (CmdlineBefore(i) = <<>> /\ ~HasCmdline(i))

\* Degraded after tick 1, healthy after tick 2; and a later document without
\* cmdline that leaves Err nil because Cmdline is resolved.
C7_Witness ==
    /\ Len(log) = 3
    /\ ~FetchOk(1) /\ log[1].Err # NoErr
    /\ FetchOk(2) /\ log[2].Err = NoErr
    /\ FetchOk(3) /\ ~HasCmdline(3) /\ log[3].Err = NoErr

\* The stack's values after exactly one push of v.
OneMorePush(old, new, v) ==
    new = IF Len(old) < StackSize THEN Append(old, v) ELSE Append(Tail(old), v)

\* C8: in every Update, a tracked variable that cannot be extracted gets
\* exactly one nil push; every other tracked variable is still processed;
\* and Err and Restarted come out as the fetch, the counter and the cmdline
\* alone decide.
C8_MissingVariable ==
    [][Len(log') = Len(log) + 1 =>
        LET res == log'[Len(log')].res
            doc == res.expvar
        IN  \A n \in DOMAIN s.stacks :
              ~GetValueOk(doc, ToSlice(n)) =>
                /\ OneMorePush(s.stacks[n].Values, s'.stacks[n].Values, Nil)
                /\ s'.stacks[n].Max = s.stacks[n].Max
                /\ \A m \in DOMAIN s.stacks :
                      (GetValueOk(doc, ToSlice(m)) /\ guessValue(doc[ToSlice(m)]) # Nil)
                        => OneMorePush(s.stacks[m].Values, s'.stacks[m].Values,
                                       guessValue(doc[ToSlice(m)]))
                /\ (s'.Err # NoErr) <=>
                      \/ res.err # NoErr
                      \/ GetInt64Err(doc, uptimeCounter) # NoErr
                      \/ (s.Cmdline = <<>> /\ GetStringArrayErr(doc, cmdlinePath) # NoErr)
                /\ s'.Restarted <=>
                      \/ s.Restarted
                      \/ (s.Err # NoErr /\ res.err = NoErr)
                      \/ (GetInt64Err(doc, uptimeCounter) = NoErr
                            /\ s.UptimeCounter > GetInt64(doc, uptimeCounter))
    ]_vars

\* The last tick fetched a document without V1 and with V2: nil was pushed to
\* V1's stack, V2's value was pushed, Err is nil and Restarted false.
C8_Witness ==
    /\ Len(log) >= 2
    /\ FetchOk(Len(log))
    /\ ~GetValueOk(log[Len(log)].res.expvar, ToSlice(V1))
    /\ GetValueOk(log[Len(log)].res.expvar, ToSlice(V2))
    /\ s.stacks[V1].Values = <<VInt64(3), Nil>>
    /\ Front(s.stacks[V2]) = VInt64(2)
    /\ s.Err = NoErr
    /\ ~s.Restarted

\* C9: Values and Max of a tracked name are the stack's integer history and
\* its formatted maximum, with Err set as with Err nil; for an untracked name
\* both give nil.
C9_HistoryWhenDegraded ==
    \A n \in AllNames :
        IF n \in DOMAIN s.stacks
        THEN /\ Values(s, n) = IntValues(s.stacks[n])
             /\ Values(s, n) = Values([s EXCEPT !.Err = NoErr], n)
             /\ Max(s, n) = IF s.stacks[n].Max = Nil THEN Nil
                            ELSE Format(s.stacks[n].Max, Kind(n))
             /\ Max(s, n) = Max([s EXCEPT !.Err = NoErr], n)
        ELSE Values(s, n) = Nil /\ Max(s, n) = Nil

\* Err is set, Value degrades, and the history and the maximum are there.
C9_Witness ==
    /\ s.Err # NoErr
    /\ Value(s, V1) = NA
    /\ Values(s, V1) = <<7, 3>>
    /\ Max(s, V1) = Format(VInt64(7), "bytes")
    /\ Values(s, V3) = Nil

\* C10: with serialize set the file holds the header ("time", then the
\* tracked names in order) and one record per Update so far, each of
\* 1 + len(vars) fields starting with the time, the latest one holding
\* Value(name) of every tracked name in order as of the end of the tick;
\* without serialize the file holds nothing.
C10_Rows ==
    IF serialize
    THEN /\ Len(rows) = 1 + Len(log)
         /\ rows[1] = <<"time", V1, V2>>
         /\ \A k \in 2..Len(rows) :
               Len(rows[k]) = 1 + Len(s.vars) /\ rows[k][1] = Now
         /\ Len(log) >= 1 =>
               \A i \in 1..Len(s.vars) :
                   rows[Len(rows)][i + 1] = Value(s, s.vars[i])
    ELSE rows = <<>>

\* Two records after the header, the latest with a value pushed in its tick.
C10_Witness ==
    /\ serialize
    /\ Len(log) = 2
    /\ Len(rows) = 3
    /\ rows[2] = <<Now, Format(VInt64(3), "bytes"), Format(VInt64(7), "none")>>
    /\ rows[3] = <<Now, NA, Format(VInt64(2), "none")>>

\* ------------------------------------------------------- pushes of the log
\* What the k-th Update pushes to the stack of name: <<v>>, or <<>> for no push.
PushOf(name, k) ==
    LET doc == log[k].res.expvar
    IN  IF ~GetValueOk(doc, ToSlice(name)) THEN <<Nil>>
        ELSE IF guessValue(doc[ToSlice(name)]) = Nil THEN <<>>
        ELSE <<guessValue(doc[ToSlice(name)])>>

RECURSIVE PushedTo(_, _)
\* All pushes of the first k Updates to the stack of name, oldest first.
PushedTo(name, k) ==
    IF k = 0 THEN <<>> ELSE PushedTo(name, k - 1) \o PushOf(name, k)

Min(a, b) == IF a < b THEN a ELSE b

\* C11: for every tracked name, Values has at most StackSize entries and is
\* the integer projection of the most recent pushes, oldest first: the
\* oldest pushes are the ones evicted.
C11_BoundedHistory ==
    \A n \in DOMAIN s.stacks :
        LET p == PushedTo(n, Len(log))
            v == Values(s, n)
        IN  /\ Len(v) <= StackSize
            /\ Len(v) = Min(Len(p), StackSize)
            /\ \A i \in 1..Len(v) : v[i] = IntOf(p[Len(p) - Len(v) + i])

\* Three pushes 3, 7, 3 to a stack of capacity 2: the first was evicted.
C11_Witness ==
    /\ PushedTo(V1, Len(log)) = <<VInt64(3), VInt64(7), VInt64(3)>>
    /\ Values(s, V1) = <<7, 3>>

\* C12: the maximum of every tracked stack, once there, stays and never
\* decreases, whatever a step pushes or evicts.
C12_MaxNeverDecreases ==
    [][\A n \in DOMAIN s.stacks :
          Max(s, n) # Nil =>
              /\ Max(s', n) # Nil
              /\ ~NumGreater(Max(s, n).text, Max(s', n).text)]_vars

\* The maximum 7 was evicted by a smaller value and a string.
C12_Witness ==
    /\ PushedTo(V1, Len(log)) = <<VInt64(7), VInt64(3), VString(<<"s">>)>>
    /\ s.stacks[V1].Values = <<VInt64(3), VString(<<"s">>)>>
    /\ Max(s, V1) = Format(VInt64(7), "bytes")

\* C13: after every Update whose document holds the uptime counter the
\* stored UptimeCounter is the observed value, on the first read and on a
\* regression too; without the counter it is what it was.
C13_CounterStored ==
    /\ \A i \in Ticks :
          log[i].UptimeCounter =
              IF HasCounter(i) THEN CounterAt(i) ELSE CounterBefore(i)
    /\ Len(log) >= 1 => s.UptimeCounter = log[Len(log)].UptimeCounter

\* 250 stored at the first read, 40 stored on the regression, kept by a
\* document without the counter.
C13_Witness ==
    /\ Len(log) = 3
    /\ HasCounter(1) /\ CounterAt(1) = 250 /\ log[1].UptimeCounter = 250
    /\ HasCounter(2) /\ CounterAt(2) = 40 /\ log[2].UptimeCounter = 40
    /\ FetchOk(3) /\ ~HasCounter(3)
    /\ s.UptimeCounter = 40

\* C14: in every Update, a tracked variable that is extracted and for which
\* guessValue gives nil leaves its stack as it was (history, Front, maximum);
\* one for which guessValue gives a value gets exactly that value pushed
\* once, and it is the Front.
C14_NoPushOnNothing ==
    [][Len(log') = Len(log) + 1 =>
        LET doc == log'[Len(log')].res.expvar
        IN  \A n \in DOMAIN s.stacks :
              GetValueOk(doc, ToSlice(n)) =>
                IF guessValue(doc[ToSlice(n)]) = Nil
                THEN s'.stacks[n] = s.stacks[n]
                ELSE /\ OneMorePush(s.stacks[n].Values, s'.stacks[n].Values,
                                    guessValue(doc[ToSlice(n)]))
                     /\ Front(s'.stacks[n]) = guessValue(doc[ToSlice(n)])
    ]_vars

\* The last document held null for V1 and 2 for V2: V1's stack still holds
\* only the 3 of the first tick, V2's Front is 2.
C14_Witness ==
    /\ Len(log) = 2
    /\ GetValueOk(log[2].res.expvar, ToSlice(V1))
    /\ log[2].res.expvar[ToSlice(V1)] = JNull
    /\ s.stacks[V1] = [Values |-> <<VInt64(3)>>, Max |-> VInt64(3)]
    /\ Front(s.stacks[V2]) = VInt64(2)

\* C19: NewService makes one stack per distinct tracked name, and every step
\* keeps the key set of s.stacks what it was at construction and changes
\* every stack by at most one push.
C19_FixedStacks ==
    [][/\ LET made == NewService(<<V2, V1, V2>>, FALSE).stacks
          IN  DOMAIN made = {V1, V2} /\ \A n \in DOMAIN made : made[n] = NewStack
       /\ DOMAIN s.stacks = {TrackedVars[i] : i \in 1..Len(TrackedVars)}
       /\ DOMAIN s'.stacks = DOMAIN s.stacks
       /\ \A n \in DOMAIN s.stacks :
             \/ s'.stacks[n].Values = s.stacks[n].Values
             \/ OneMorePush(s.stacks[n].Values, s'.stacks[n].Values,
                            Front(s'.stacks[n]))
    ]_vars

\* Three Updates, one of them without V1 in its document: both stacks are
\* there and full.
C19_Witness ==
    /\ Len(log) = 3
    /\ \E i \in Ticks : FetchOk(i) /\ ~GetValueOk(log[i].res.expvar, ToSlice(V1))
    /\ DOMAIN s.stacks = {V1, V2}
    /\ Len(s.stacks[V1].Values) = StackSize
    /\ Len(PushedTo(V2, 3)) = 3

\* ------------------------------------------- one application of guessValue
\* Longest array handed to guessValue.
MaxArrayLen == 3

\* The elements of the arrays: integers, halves and a string.
Elems == {JInt(1), JInt(2), JInt(3), JInt(-3), JFloat(3, 2), JFloat(5, 2),
          JStr(<<"s">>)}

\* The JSON values handed to guessValue.
RawValues ==
    {JInt(-3), JInt(0), JInt(2), JFloat(3, 2), JBool(TRUE), JBool(FALSE),
     JStr(<<"s">>), JStr(<<"1">>), JNull, JObj}
    \cup {JArr(a) : a \in UNION {[1..k -> Elems] : k \in 0..MaxArrayLen}}

InitGuess ==
    /\ raw \in RawValues
    /\ guessed = Pending
    /\ serialize = FALSE
    /\ s = NewService(TrackedVars, FALSE)
    /\ rows = <<>>
    /\ log = <<>>
    /\ RoundIdle

\* v := guessValue(value)
Guess ==
    /\ guessed = Pending
    /\ guessed' = guessValue(raw)
    /\ UNCHANGED <<raw, vars, roundVars>>

NextGuess == Guess

SpecGuess == InitGuess /\ [][NextGuess]_<<vars, roundVars, guessVars>>

\* Which of Int64, Float64, Boolean, String, Array succeed on a value.
Trials(v) ==
    <<IsInt64(v), IsFloat64(v), v.j = "bool", v.j = "string", v.j = "array">>

\* The first of them that succeeds, 0 when none does.
FirstTrial(v) ==
    IF \E k \in 1..5 : Trials(v)[k]
    THEN CHOOSE k \in 1..5 : Trials(v)[k] /\ \A m \in 1..(k - 1) : ~Trials(v)[m]
    ELSE 0

\* C17: the type of guessValue's result is that of the first of int64,
\* float64, bool, string, array that succeeds, with the value's content; a
\* value on which none succeeds gives nil.
C17_FirstSuccessWins ==
    guessed # Pending =>
        LET k == FirstTrial(raw)
        IN  /\ k = 0 => guessed = Nil
            /\ k = 1 => guessed = VInt64(raw.n)
            /\ k = 2 => /\ guessed.t = "float64"
                        /\ guessed.num * raw.den = raw.num * guessed.den
            /\ k = 3 => guessed = VBool(raw.b)
            /\ k = 4 => guessed = VString(raw.str)
            /\ k = 5 => guessed.t \in {"int", "int64", "float64"}

\* An integer literal, on which Int64 and Float64 both succeed, gave an int64.
C17_Witness ==
    /\ raw = JInt(2)
    /\ Trials(raw)[1] /\ Trials(raw)[2]
    /\ guessed = VInt64(2)

\* Twice the value of a numeric element, and twice the sum of an array's.
Twice(e) == IF e.j = "int" THEN 2 * e.n ELSE (2 * e.num) \div e.den
RECURSIVE SumTwice(_)
SumTwice(a) == IF a = <<>> THEN 0 ELSE Twice(Head(a)) + SumTwice(Tail(a))

AllNumeric(a) == \A i \in 1..Len(a) : a[i].j \in {"int", "float"}

\* n is the quotient num / den truncated toward zero (den > 0).
IsTruncOf(n, num, den) ==
    IF num >= 0 THEN n * den <= num /\ num < (n + 1) * den
    ELSE (-n) * den <= -num /\ -num < (1 - n) * den

\* C18: on an array guessValue gives the integer 0 when it is empty; when
\* its first element is an integer, an int64, the mean of the elements
\* truncated; otherwise a float64, the mean itself. So [1,2,3] gives the
\* integer 2 and [1.5,2.5] the float 2.
C18_ArrayMean ==
    (guessed # Pending /\ raw.j = "array") =>
        LET a == raw.elems
        IN  IF Len(a) = 0 THEN guessed.t \in {"int", "int64"} /\ guessed.n = 0
            ELSE IF IsInt64(a[1])
            THEN /\ guessed.t = "int64"
                 /\ AllNumeric(a) => IsTruncOf(guessed.n, SumTwice(a), 2 * Len(a))
                 /\ a = <<JInt(1), JInt(2), JInt(3)>> => guessed = VInt64(2)
            ELSE /\ guessed.t = "float64"
                 /\ AllNumeric(a) =>
                       guessed.num * 2 * Len(a) = SumTwice(a) * guessed.den
                 /\ a = <<JFloat(3, 2), JFloat(5, 2)>> => guessed = VFloat(2, 1)

\* [1, 2] gave the integer 1, the mean 1.5 truncated.
C18_Witness ==
    /\ raw = JArr(<<JInt(1), JInt(2)>>)
    /\ guessed = VInt64(1)

\* --------------------------------------------- a round of concurrent Updates
\* Number of monitored services, each with its own Service and goroutine.
NumMonitors == 2
Monitors == 1..NumMonitors

\* url.Host of the i-th monitored service; the hosts differ.
HostOf(i) == [k \in 1..i |-> "h"]

\* What FetchExpvar returns in the round.
RoundResults ==
    {[err |-> "fetch", expvar |-> EmptyDoc],
     [err |-> NoErr, expvar |-> Doc({40}, {}, {JInt(3)}, {JInt(7)})],
     [err |-> NoErr, expvar |-> Doc({250}, {CmdA}, {}, {JInt(2)})]}

\* The i-th Service as constructed, with its file.
Constructed(i) ==
    [svc |-> [NewService(TrackedVars, serialize) EXCEPT !.Name = HostOf(i)],
     file |-> IF serialize THEN <<Header(TrackedVars)>> ELSE <<>>]

\* The Service and its file after one Update on res.
Ticked(st, res) ==
    [svc |-> UpdateService(st.svc, res),
     file |-> WriteRow(st.file, UpdateService(st.svc, res))]

\* The states the i-th Service may begin the round in: as constructed, after
\* a failed tick, after a successful tick.
RoundStarts(i) ==
    {Constructed(i),
     Ticked(Constructed(i), [err |-> "fetch", expvar |-> EmptyDoc]),
     Ticked(Constructed(i),
            [err |-> NoErr, expvar |-> Doc({100}, {CmdA}, {JInt(3)}, {JInt(7)})])}

InitRound ==
    /\ serialize \in BOOLEAN
    /\ s = NewService(TrackedVars, serialize)
    /\ rows = IF serialize THEN <<Header(TrackedVars)>> ELSE <<>>
    /\ log = <<>>
    /\ GuessIdle
    /\ start \in [Monitors -> UNION {RoundStarts(i) : i \in Monitors}]
    /\ \A i \in Monitors : start[i] \in RoundStarts(i)
    /\ svcs = [i \in Monitors |-> start[i].svc]
    /\ files = [i \in Monitors |-> start[i].file]
    /\ pc = [i \in Monitors |-> "none"]
    /\ got = [i \in Monitors |-> [err |-> NoErr, expvar |-> EmptyDoc]]
    /\ dones = [i \in Monitors |-> 0]
    /\ wg = 0
    /\ spawned = 0
    /\ rendered = FALSE

\* The caller: wg.Add(1); go service.Update(&wg), service by service.
Spawn ==
    /\ spawned < NumMonitors
    /\ spawned' = spawned + 1
    /\ wg' = wg + 1
    /\ pc' = [pc EXCEPT ![spawned + 1] = "fetch"]
    /\ UNCHANGED <<vars, guessVars, svcs, files, got, start, dones, rendered>>

\* The caller: wg.Wait() returns, the render pass begins.
Wait ==
    /\ spawned = NumMonitors
    /\ wg = 0
    /\ ~rendered
    /\ rendered' = TRUE
    /\ UNCHANGED <<vars, guessVars, svcs, files, pc, got, start, dones, wg, spawned>>

\* Variant: wg.Done() is called at the start of Update instead of deferred.
RunFetch_DoneFirst(i) ==
    /\ pc[i] = "fetch"
    /\ \E res \in RoundResults : got' = [got EXCEPT ![i] = res]
    /\ pc' = [pc EXCEPT ![i] = "check"]
    /\ wg' = wg - 1
    /\ dones' = [dones EXCEPT ![i] = @ + 1]
    /\ UNCHANGED <<vars, guessVars, svcs, files, start, spawned, rendered>>

\* Update of monitor i: expvar, err := FetchExpvar(s.URL)
RunFetch(i) ==
    /\ pc[i] = "fetch"
    /\ \E res \in RoundResults : got' = [got EXCEPT ![i] = res]
    /\ pc' = [pc EXCEPT ![i] = "check"]
    /\ UNCHANGED <<vars, guessVars, svcs, files, start, dones, wg, spawned, rendered>>

\* Update of monitor i: the restart check and s.Err = err
RunCheck(i) ==
    /\ pc[i] = "check"
    /\ svcs' = [svcs EXCEPT ![i] = CheckRestart(@, got[i].err)]
    /\ pc' = [pc EXCEPT ![i] = "uptime"]
    /\ UNCHANGED <<vars, guessVars, files, got, start, dones, wg, spawned, rendered>>

\* Variant: UptimeCounter is one variable of the package, not a field.
RunUptime_Shared(i) ==
    /\ pc[i] = "uptime"
    /\ svcs' = [k \in Monitors |->
                  IF k = i THEN UpdateUptime(svcs[i], got[i].expvar)
                  ELSE [svcs[k] EXCEPT !.UptimeCounter =
                            UpdateUptime(svcs[i], got[i].expvar).UptimeCounter]]
    /\ pc' = [pc EXCEPT ![i] = "cmdline"]
    /\ UNCHANGED <<vars, guessVars, files, got, start, dones, wg, spawned, rendered>>

\* Update of monitor i: the uptime counter
RunUptime(i) ==
    /\ pc[i] = "uptime"
    /\ svcs' = [svcs EXCEPT ![i] = UpdateUptime(@, got[i].expvar)]
    /\ pc' = [pc EXCEPT ![i] = "cmdline"]
    /\ UNCHANGED <<vars, guessVars, files, got, start, dones, wg, spawned, rendered>>

\* Update of monitor i: Cmdline and Name
RunCmdline(i) ==
    /\ pc[i] = "cmdline"
    /\ svcs' = [svcs EXCEPT ![i] = UpdateCmdline(@, got[i].expvar)]
    /\ pc' = [pc EXCEPT ![i] = "push"]
    /\ UNCHANGED <<vars, guessVars, files, got, start, dones, wg, spawned, rendered>>

\* Update of monitor i: the loop over s.stacks
RunPush(i) ==
    /\ pc[i] = "push"
    /\ svcs' = [svcs EXCEPT ![i] = PushVars(@, got[i].expvar)]
    /\ pc' = [pc EXCEPT ![i] = "write"]
    /\ UNCHANGED <<vars, guessVars, files, got, start, dones, wg, spawned, rendered>>

\* Update of monitor i: the CSV record
RunWrite(i) ==
    /\ pc[i] = "write"
    /\ files' = [files EXCEPT ![i] = WriteRow(@, svcs[i])]
    /\ pc' = [pc EXCEPT ![i] = "return"]
    /\ UNCHANGED <<vars, guessVars, svcs, got, start, dones, wg, spawned, rendered>>

\* Update of monitor i returns: the deferred wg.Done()
RunReturn(i) ==
    /\ pc[i] = "return"
    /\ wg' = wg - 1
    /\ dones' = [dones EXCEPT ![i] = @ + 1]
    /\ pc' = [pc EXCEPT ![i] = "done"]
    /\ UNCHANGED <<vars, guessVars, svcs, files, got, start, spawned, rendered>>

NextRound ==
    \/ Spawn
    \/ Wait
    \/ \E i \in Monitors : RunFetch(i)
    \/ \E i \in Monitors : RunCheck(i)
    \/ \E i \in Monitors : RunUptime(i)
    \/ \E i \in Monitors : RunCmdline(i)
    \/ \E i \in Monitors : RunPush(i)
    \/ \E i \in Monitors : RunWrite(i)
    \/ \E i \in Monitors : RunReturn(i)

SpecRound == InitRound /\ [][NextRound]_<<vars, roundVars, guessVars>>

\* C15: every Update calls wg.Done once, when it returns and not before:
\* after all its writes to the Service and the file, on a failed fetch as
\* on a successful one; so wg counts the Updates still running and the
\* render pass begins only when every Update of the round has returned.
C15_DoneAfterWrites ==
    /\ \A i \in Monitors : dones[i] = IF pc[i] = "done" THEN 1 ELSE 0
    /\ wg = Cardinality({i \in Monitors : pc[i] \notin {"none", "done"}})
    /\ \A i \in Monitors :
          dones[i] >= 1 =>
              /\ svcs[i] = UpdateService(start[i].svc, got[i])
              /\ files[i] = WriteRow(start[i].file, svcs[i])
    /\ rendered => \A i \in Monitors : pc[i] = "done"

\* The render pass began after one Update failed its fetch and another
\* succeeded.
C15_Witness ==
    /\ rendered
    /\ \E i, k \in Monitors : got[i].err # NoErr /\ got[k].err = NoErr
    /\ \A i \in Monitors : dones[i] = 1 /\ svcs[i] # start[i].svc

\* The Service of an Update that runs alone from sv on res and is about to
\* run statement at.
Alone(sv, res, at) ==
    IF at \in {"none", "fetch", "check"} THEN sv
    ELSE IF at = "uptime" THEN CheckRestart(sv, res.err)
    ELSE IF at = "cmdline"
        THEN UpdateUptime(CheckRestart(sv, res.err), res.expvar)
    ELSE IF at = "push"
        THEN UpdateCmdline(UpdateUptime(CheckRestart(sv, res.err), res.expvar),
                           res.expvar)
    ELSE UpdateService(sv, res)

\* C16: at every point of every interleaving, every Service and file is
\* what its own Update alone made of it, from the state it began the round
\* in and the document it fetched: no Update writes another's Service.
C16_NoInterference ==
    \A i \in Monitors :
        /\ svcs[i] = Alone(start[i].svc, got[i], pc[i])
        /\ files[i] = IF pc[i] \in {"return", "done"}
                      THEN WriteRow(start[i].file,
                                    UpdateService(start[i].svc, got[i]))
                      ELSE start[i].file

\* Two Updates are under way at once, each having written to its Service.
C16_Witness ==
    \E i, k \in Monitors :
        /\ i # k
        /\ pc[i] = "write" /\ pc[k] = "cmdline"
        /\ svcs[i] # start[i].svc /\ svcs[k] # start[k].svc
        /\ svcs[i].UptimeCounter # svcs[k].UptimeCounter

====
